---- MODULE Spec2Model ----
(***************************************************************************)
(* Multi-threaded file search engine (src/searchengine.cpp).               *)
(*                                                                         *)
(* Threads: thread 0 is the main thread (main -> SearchEngine::search ->   *)
(* ~ThreadPool); threads 1..threads are the pool's workers.  A directory   *)
(* tree is the sequence of entries recursive_directory_iterator yields; a  *)
(* path is the position of an entry in that sequence.  A file's content is *)
(* a sequence of characters, "\n" being the line delimiter of getline.     *)
(***************************************************************************)
EXTENDS Integers, Sequences, FiniteSets, TLC

\* ------------------------------------------------------------------ bounds
MaxWorkers == 2
MaxEntries == 2
MaxProducers == 2
MaxFileLen == 5
MaxTermLen == 2

\* --------------------------------------------------------------- constants
MainThread == 0
NoThread == -1
Npos == -1
MinArgc == 3
NL == "\n"
Chars == {"a", "b"}

WorkerIds == 1..MaxWorkers
\* threads other than main that call ThreadPool::enqueue (none in search itself)
ProducerIds == (MaxWorkers + 1)..(MaxWorkers + MaxProducers)
Callers == {MainThread} \cup ProducerIds
Threads == 0..(MaxWorkers + MaxProducers)

VARIABLES
  argc,            \* main's argc
  rootExists,      \* whether argv[1] names an existing path
  tree,            \* the entries the counting pass iterates
  tree2,           \* the entries the dispatching pass iterates, and the files the tasks open
  searchTerm,      \* argv[2]
  pc,              \* position of each thread
  threads,         \* ThreadPool constructor argument
  workers,         \* workers.size()
  tasks,           \* ThreadPool::tasks
  queue_mutex,     \* holder of ThreadPool::queue_mutex
  stop,            \* ThreadPool::stop
  results_mutex,   \* holder of SearchEngine::results_mutex
  results,         \* SearchEngine::results
  files_processed, \* SearchEngine::files_processed
  total_files,     \* SearchEngine::total_files
  it,              \* per enqueueing thread: position of its directory iterator
  joined,          \* number of workers the destructor has joined
  task,            \* per worker: the path captured by the task it runs (0: none)
  matchingLines,   \* per worker: searchInFile's local matchingLines
  unwinding,       \* an exception is propagating out of search
  exitCode,        \* main's return value (-1: still running)
  output,          \* lines written by the main thread to stdout/stderr
  runs,            \* history: per path, how many times a worker popped and invoked its task
  submitted,       \* history: the paths whose task enqueue has emplaced, in order
  runNo,           \* which invocation of the program this is
  firstPairs       \* the (path, line-numbers) pairs the previous invocation reported

vars == <<argc, rootExists, tree, tree2, searchTerm, pc, threads, workers, tasks,
          queue_mutex, stop, results_mutex, results, files_processed, total_files,
          it, joined, task, matchingLines, unwinding, exitCode, output, runs,
          submitted, runNo, firstPairs>>

inputVars == <<argc, rootExists, tree, tree2, searchTerm>>
poolVars == <<threads, workers, tasks, queue_mutex, stop>>
engineVars == <<results_mutex, results, files_processed, total_files>>
workerVars == <<task, matchingLines, runs>>
historyVars == <<submitted, runNo, firstPairs>>
mainVars == <<it, joined, unwinding, exitCode, output>>

\* ------------------------------------------------------------ file system
DirEntry == [regular |-> FALSE, openable |-> FALSE, content |-> <<>>]
LockedFile == [regular |-> TRUE, openable |-> FALSE, content |-> <<"a", "b">>]
HitFile == [regular |-> TRUE, openable |-> TRUE,
            content |-> <<"b", NL, "a", "b", "a", "b", NL, NL, "a", "a", "b">>]
MissFile == [regular |-> TRUE, openable |-> TRUE, content |-> <<"b", "a", NL, "a">>]
EntryKinds == {DirEntry, LockedFile, HitFile, MissFile}
ArgTerms == {<<"a", "b">>}

SeqsUpTo(S, n) == UNION {[1..k -> S] : k \in 0..n}
Trees == SeqsUpTo(EntryKinds, MaxEntries)

\* fs::is_regular_file(entry)
IsRegularFile(entry) == entry.regular

\* ----------------------------------------------------------- searchInFile
RECURSIVE FindFrom(_, _, _)
\* std::string::find: the lowest position (0-based) at which term occurs, or npos
FindFrom(line, term, pos) ==
  IF pos + Len(term) > Len(line) THEN Npos
  ELSE IF SubSeq(line, pos + 1, pos + Len(term)) = term THEN pos
  ELSE FindFrom(line, term, pos + 1)

Find(line, term) == FindFrom(line, term, 0)

RECURSIVE DelimFrom(_, _)
\* position of the first "\n" at or after pos, Len(content)+1 at end of file
DelimFrom(content, pos) ==
  IF pos > Len(content) \/ content[pos] = NL THEN pos
  ELSE DelimFrom(content, pos + 1)

ScanLineZeroIndexed(line, lineNumber, term, matching) ==
  IF Find(line, term) # Npos THEN Append(matching, lineNumber - 1) ELSE matching

\* push_back(lineNumber) when line.find(searchTerm) != npos, lines 83-85
ScanLine(line, lineNumber, term, matching) ==
  IF Find(line, term) # Npos THEN Append(matching, lineNumber) ELSE matching

RECURSIVE ScanLoop(_, _, _, _, _)
\* while (std::getline(file, line)) { lineNumber++; ... }
ScanLoop(content, pos, lineNumber, term, matching) ==
  IF pos > Len(content) THEN matching
  ELSE LET e == DelimFrom(content, pos)
           line == SubSeq(content, pos, e - 1)
       IN ScanLoop(content, e + 1, lineNumber + 1, term,
                   ScanLine(line, lineNumber + 1, term, matching))

\* matchingLines at line 88 (empty when the file cannot be opened)
ScanFile(entry, term) ==
  IF ~entry.openable THEN <<>> ELSE ScanLoop(entry.content, 1, 0, term, <<>>)

\* ------------------------------------------------------------ thread pool
\* the predicate of condition.wait
WaitPredicate == stop \/ tasks # <<>>

\* if (stop && tasks.empty()) return;
ExitCondition == stop /\ tasks = <<>>

Waiters == {w \in WorkerIds : pc[w] = "waiting"}

\* ------------------------------------------------------------------- init
\* the state when main is entered
InitRun ==
  /\ pc = [t \in Threads |-> IF t = MainThread THEN "main" ELSE "unborn"]
  /\ threads = 0
  /\ workers = 0
  /\ tasks = <<>>
  /\ queue_mutex = NoThread
  /\ stop = FALSE
  /\ results_mutex = NoThread
  /\ results = <<>>
  /\ files_processed = 0
  /\ total_files = 0
  /\ it = [t \in Callers |-> 0]
  /\ joined = 0
  /\ task = [w \in WorkerIds |-> 0]
  /\ matchingLines = [w \in WorkerIds |-> <<>>]
  /\ unwinding = FALSE
  /\ exitCode = -1
  /\ output = <<>>
  /\ runs = [p \in 1..MaxEntries |-> 0]
  /\ submitted = <<>>

Init ==
  /\ argc \in {MinArgc - 1, MinArgc}
  /\ rootExists \in BOOLEAN
  /\ tree \in (IF argc >= MinArgc /\ rootExists THEN Trees ELSE {<<>>})
  /\ tree2 = tree
  /\ searchTerm \in ArgTerms
  /\ runNo = 1
  /\ firstPairs = {}
  /\ InitRun

\* ------------------------------------------------------------ main thread
MainStartSearchesAnyway ==
  /\ pc[MainThread] = "main"
  /\ IF argc < MinArgc
       THEN /\ output' = Append(output, <<"usage">>)
            /\ exitCode' = 1
            /\ pc' = [pc EXCEPT ![MainThread] = "exit"]
       ELSE /\ output' = output \o (IF ~rootExists THEN << <<"nodir">> >> ELSE <<>>)
                               \o << <<"searching">> >>
            /\ exitCode' = exitCode
            /\ pc' = [pc EXCEPT ![MainThread] = "Counting"]
  /\ it' = [it EXCEPT ![MainThread] = 1]
  /\ UNCHANGED <<inputVars, poolVars, engineVars, workerVars, historyVars, joined, unwinding>>

\* main, lines 154-168
MainStart ==
  /\ pc[MainThread] = "main"
  /\ IF argc < MinArgc
       THEN /\ output' = Append(output, <<"usage">>)
            /\ exitCode' = 1
            /\ pc' = [pc EXCEPT ![MainThread] = "exit"]
       ELSE IF ~rootExists
       THEN /\ output' = Append(output, <<"nodir">>)
            /\ exitCode' = 1
            /\ pc' = [pc EXCEPT ![MainThread] = "exit"]
       ELSE /\ output' = Append(output, <<"searching">>)
            /\ exitCode' = exitCode
            /\ pc' = [pc EXCEPT ![MainThread] = "Counting"]
  /\ it' = [it EXCEPT ![MainThread] = 1]
  /\ UNCHANGED <<inputVars, poolVars, engineVars, workerVars, historyVars, joined, unwinding>>

\* counting pass, lines 99-103: one entry per step
CountStep ==
  /\ pc[MainThread] = "Counting"
  /\ IF it[MainThread] <= Len(tree)
       THEN /\ total_files' = IF IsRegularFile(tree[it[MainThread]])
                                THEN total_files + 1 ELSE total_files
            /\ it' = [it EXCEPT ![MainThread] = @ + 1]
            /\ pc' = pc
       ELSE /\ pc' = [pc EXCEPT ![MainThread] = "CreatePool"]
            /\ UNCHANGED <<total_files, it>>
  /\ UNCHANGED <<inputVars, poolVars, results_mutex, results, files_processed,
                 workerVars, historyVars, joined, unwinding, exitCode, output>>

\* line 106: std::thread::hardware_concurrency() may return 0
CreatePool ==
  /\ pc[MainThread] = "CreatePool"
  /\ \E n \in 0..MaxWorkers : threads' = n
  /\ pc' = [pc EXCEPT ![MainThread] = "Ctor"]
  /\ UNCHANGED <<inputVars, workers, tasks, queue_mutex, stop, engineVars, workerVars,
                 historyVars, mainVars>>

CtorSpawnAtLeastOne ==
  /\ pc[MainThread] = "Ctor"
  /\ IF workers < threads \/ workers = 0
       THEN /\ workers' = workers + 1
            /\ pc' = [pc EXCEPT ![workers + 1] = "loop"]
            /\ it' = it
       ELSE /\ pc' = [pc EXCEPT ![MainThread] = "Dispatching"]
            /\ it' = [it EXCEPT ![MainThread] = 1]
            /\ workers' = workers
  /\ UNCHANGED <<inputVars, threads, tasks, queue_mutex, stop, engineVars, workerVars,
                 historyVars, joined, unwinding, exitCode, output>>

\* ThreadPool::ThreadPool, lines 26-44: one emplace_back per step
CtorSpawn ==
  /\ pc[MainThread] = "Ctor"
  /\ IF workers < threads
       THEN /\ workers' = workers + 1
            /\ pc' = [pc EXCEPT ![workers + 1] = "loop"]
            /\ it' = it
       ELSE /\ pc' = [pc EXCEPT ![MainThread] = "Dispatching"]
            /\ it' = [it EXCEPT ![MainThread] = 1]
            /\ workers' = workers
  /\ UNCHANGED <<inputVars, threads, tasks, queue_mutex, stop, engineVars, workerVars,
                 historyVars, joined, unwinding, exitCode, output>>

DispatchStepCounts ==
  /\ pc[MainThread] = "Dispatching"
  /\ IF it[MainThread] <= Len(tree2)
       THEN IF IsRegularFile(tree2[it[MainThread]])
              THEN /\ pc' = [pc EXCEPT ![MainThread] = "EnqLock"]
                   /\ it' = it
                   /\ total_files' = total_files + 1
              ELSE /\ pc' = pc
                   /\ it' = [it EXCEPT ![MainThread] = @ + 1]
                   /\ total_files' = total_files
       ELSE /\ pc' = [pc EXCEPT ![MainThread] = "Draining"]
            /\ it' = it
            /\ total_files' = total_files
  /\ UNCHANGED <<inputVars, poolVars, results_mutex, results, files_processed,
                 workerVars, historyVars, joined, unwinding, exitCode, output>>

\* dispatching pass, lines 111-124: the iterator yields one entry
DispatchStep ==
  /\ pc[MainThread] = "Dispatching"
  /\ IF it[MainThread] <= Len(tree2)
       THEN IF IsRegularFile(tree2[it[MainThread]])
              THEN /\ pc' = [pc EXCEPT ![MainThread] = "EnqLock"]
                   /\ it' = it
              ELSE /\ pc' = pc
                   /\ it' = [it EXCEPT ![MainThread] = @ + 1]
       ELSE /\ pc' = [pc EXCEPT ![MainThread] = "Draining"]
            /\ it' = it
  /\ UNCHANGED <<inputVars, poolVars, engineVars, workerVars, historyVars, joined,
                 unwinding, exitCode, output>>

\* a filesystem_error thrown by the directory iterator or by is_regular_file
\* (lines 99-100, 111-112): search's locals are destroyed (the pool, once
\* constructed) and main's handler runs
FsThrow ==
  /\ pc[MainThread] \in {"Counting", "Dispatching"}
  /\ unwinding' = TRUE
  /\ pc' = [pc EXCEPT ![MainThread] =
              IF pc[MainThread] = "Dispatching" THEN "DtorLock" ELSE "catch"]
  /\ UNCHANGED <<inputVars, poolVars, engineVars, workerVars, historyVars, it, joined,
                 exitCode, output>>

\* where enqueue's caller continues, and how far its iterator advances
AfterEnqueue(t) == IF t = MainThread THEN "Dispatching" ELSE "produce"
Stride(t) == IF t = MainThread THEN 1 ELSE MaxProducers

\* ThreadPool::enqueue, line 49
EnqLock(t) ==
  /\ pc[t] = "EnqLock"
  /\ queue_mutex = NoThread
  /\ queue_mutex' = t
  /\ pc' = [pc EXCEPT ![t] = "EnqEmplace"]
  /\ UNCHANGED <<inputVars, threads, workers, tasks, stop, engineVars, workerVars,
                 historyVars, mainVars>>

\* ThreadPool::enqueue, lines 50-51
EnqEmplace(t) ==
  /\ pc[t] = "EnqEmplace"
  /\ tasks' = Append(tasks, it[t])
  /\ submitted' = Append(submitted, it[t])
  /\ queue_mutex' = NoThread
  /\ pc' = [pc EXCEPT ![t] = "EnqNotify"]
  /\ UNCHANGED <<inputVars, threads, workers, stop, engineVars, workerVars, runNo,
                 firstPairs, mainVars>>

\* condition.notify_one(), line 52; enqueue returns and the iterator advances
EnqNotify(t) ==
  /\ pc[t] = "EnqNotify"
  /\ IF Waiters = {}
       THEN pc' = [pc EXCEPT ![t] = AfterEnqueue(t)]
       ELSE \E w \in Waiters :
              pc' = [pc EXCEPT ![t] = AfterEnqueue(t), ![w] = "loop"]
  /\ it' = [it EXCEPT ![t] = @ + Stride(t)]
  /\ UNCHANGED <<inputVars, poolVars, engineVars, workerVars, historyVars, joined,
                 unwinding, exitCode, output>>

DrainConditionOnSubmitted == files_processed < Len(submitted)

DrainConditionOffByOne == files_processed + 1 < total_files

\* while (files_processed < total_files), line 127
DrainCondition == files_processed < total_files

DrainPollNoWait ==
  /\ pc[MainThread] = "Draining"
  /\ pc' = [pc EXCEPT ![MainThread] = "Reporting"]
  /\ UNCHANGED <<inputVars, poolVars, engineVars, workerVars, historyVars, mainVars>>

DrainPollUntilQueueEmpty ==
  /\ pc[MainThread] = "Draining"
  /\ pc' = [pc EXCEPT ![MainThread] = IF tasks # <<>> THEN "Sleeping" ELSE "Reporting"]
  /\ UNCHANGED <<inputVars, poolVars, engineVars, workerVars, historyVars, mainVars>>

\* line 127: one evaluation of the loop condition
DrainPoll ==
  /\ pc[MainThread] = "Draining"
  /\ pc' = [pc EXCEPT ![MainThread] = IF DrainCondition THEN "Sleeping" ELSE "Reporting"]
  /\ UNCHANGED <<inputVars, poolVars, engineVars, workerVars, historyVars, mainVars>>

\* sleep_for(100ms), line 128
DrainSleep ==
  /\ pc[MainThread] = "Sleeping"
  /\ pc' = [pc EXCEPT ![MainThread] = "Draining"]
  /\ UNCHANGED <<inputVars, poolVars, engineVars, workerVars, historyVars, mainVars>>

\* a worker is inside push_back (line 90) while the main thread reads results
\* without results_mutex: a data race, whose outcome is not defined
Racing == \E w \in WorkerIds : pc[w] = "append"

\* what an unlocked read may make of results: the entries as they are, or,
\* during a push_back, also the entry being added
Views ==
  {results} \cup {Append(results, <<task[w], matchingLines[w]>>) :
                    w \in {x \in WorkerIds : pc[x] = "append"}}

\* lines 134-135: completion line and count line
Report ==
  /\ pc[MainThread] = "Reporting"
  /\ \E view \in Views :
       output' = output \o << <<"completed">>, <<"found", Len(view)>> >>
  /\ pc' = [pc EXCEPT ![MainThread] = "Display"]
  /\ UNCHANGED <<inputVars, poolVars, engineVars, workerVars, historyVars, it, joined,
                 unwinding, exitCode>>

DisplayUnconditional ==
  /\ pc[MainThread] = "Display"
  /\ output' = output \o << <<"results">> >>
                      \o [i \in 1..Len(results) |-> <<"file", results[i]>>]
  /\ pc' = [pc EXCEPT ![MainThread] = "DtorLock"]
  /\ UNCHANGED <<inputVars, poolVars, engineVars, workerVars, historyVars, it, joined,
                 unwinding, exitCode>>

\* lines 138-149: the Results block, read without results_mutex
Display ==
  /\ pc[MainThread] = "Display"
  /\ \/ /\ \E view \in Views :
            output' = IF view # <<>>
                        THEN output \o << <<"results">> >>
                                    \o [i \in 1..Len(view) |-> <<"file", view[i]>>]
                        ELSE output
        /\ pc' = [pc EXCEPT ![MainThread] = "DtorLock"]
     \/ /\ Racing
        /\ output' = output \o << <<"results">>, <<"garbled">> >>
        /\ pc' = [pc EXCEPT ![MainThread] = "DtorLock"]
     \/ /\ Racing
        /\ output' = output
        /\ pc' = [t \in Threads |-> "aborted"]
  /\ UNCHANGED <<inputVars, poolVars, engineVars, workerVars, historyVars, it, joined,
                 unwinding, exitCode>>

\* ~ThreadPool, line 57
DtorLock ==
  /\ pc[MainThread] = "DtorLock"
  /\ queue_mutex = NoThread
  /\ queue_mutex' = MainThread
  /\ pc' = [pc EXCEPT ![MainThread] = "DtorStop"]
  /\ UNCHANGED <<inputVars, threads, workers, tasks, stop, engineVars, workerVars,
                 historyVars, mainVars>>

\* ~ThreadPool, lines 58-59
DtorStop ==
  /\ pc[MainThread] = "DtorStop"
  /\ stop' = TRUE
  /\ queue_mutex' = NoThread
  /\ pc' = [pc EXCEPT ![MainThread] = "DtorNotify"]
  /\ UNCHANGED <<inputVars, threads, workers, tasks, engineVars, workerVars,
                 historyVars, mainVars>>

\* condition.notify_all(), line 60
DtorNotify ==
  /\ pc[MainThread] = "DtorNotify"
  /\ pc' = [t \in Threads |->
              IF t = MainThread THEN "DtorJoin"
              ELSE IF pc[t] = "waiting" THEN "loop" ELSE pc[t]]
  /\ joined' = 0
  /\ UNCHANGED <<inputVars, poolVars, engineVars, workerVars, historyVars, it, unwinding,
                 exitCode, output>>

\* for (worker : workers) worker.join(), lines 61-62; then search returns or
\* the exception reaches main's handler
DtorJoin ==
  /\ pc[MainThread] = "DtorJoin"
  /\ IF joined < workers
       THEN /\ pc[joined + 1] = "exited"
            /\ joined' = joined + 1
            /\ pc' = pc
       ELSE /\ pc' = [pc EXCEPT ![MainThread] = IF unwinding THEN "catch" ELSE "return"]
            /\ joined' = joined
  /\ UNCHANGED <<inputVars, poolVars, engineVars, workerVars, historyVars, it, unwinding,
                 exitCode, output>>

MainCatchReturnsZero ==
  /\ pc[MainThread] = "catch"
  /\ output' = Append(output, <<"fserror">>)
  /\ exitCode' = 0
  /\ pc' = [pc EXCEPT ![MainThread] = "exit"]
  /\ UNCHANGED <<inputVars, poolVars, engineVars, workerVars, historyVars, it, joined,
                 unwinding>>

\* main, lines 173-175
MainCatch ==
  /\ pc[MainThread] = "catch"
  /\ output' = Append(output, <<"fserror">>)
  /\ exitCode' = 1
  /\ pc' = [pc EXCEPT ![MainThread] = "exit"]
  /\ UNCHANGED <<inputVars, poolVars, engineVars, workerVars, historyVars, it, joined,
                 unwinding>>

\* main, line 181
MainReturn ==
  /\ pc[MainThread] = "return"
  /\ exitCode' = 0
  /\ pc' = [pc EXCEPT ![MainThread] = "exit"]
  /\ UNCHANGED <<inputVars, poolVars, engineVars, workerVars, historyVars, it, joined,
                 unwinding, output>>

\* ---------------------------------------------------------------- workers
\* line 32, and the re-acquisition of the mutex when wait wakes up
WAcquire(w) ==
  /\ pc[w] = "loop"
  /\ queue_mutex = NoThread
  /\ queue_mutex' = w
  /\ pc' = [pc EXCEPT ![w] = "locked"]
  /\ UNCHANGED <<inputVars, threads, workers, tasks, stop, engineVars, workerVars,
                 historyVars, mainVars>>

WWaitUnconditional(w) ==
  /\ pc[w] = "locked"
  /\ queue_mutex' = NoThread
  /\ pc' = [pc EXCEPT ![w] = "waiting"]
  /\ UNCHANGED <<inputVars, threads, workers, tasks, stop, engineVars, workerVars,
                 historyVars, mainVars>>

\* condition.wait with a false predicate, lines 33-35: releases the mutex and blocks
WWait(w) ==
  /\ pc[w] = "locked"
  /\ ~WaitPredicate
  /\ queue_mutex' = NoThread
  /\ pc' = [pc EXCEPT ![w] = "waiting"]
  /\ UNCHANGED <<inputVars, threads, workers, tasks, stop, engineVars, workerVars,
                 historyVars, mainVars>>

\* a spurious wakeup of condition.wait: the predicate is evaluated again
WSpurious(w) ==
  /\ pc[w] = "waiting"
  /\ pc' = [pc EXCEPT ![w] = "loop"]
  /\ UNCHANGED <<inputVars, poolVars, engineVars, workerVars, historyVars, mainVars>>

\* lines 36-37
WExit(w) ==
  /\ pc[w] = "locked"
  /\ WaitPredicate
  /\ ExitCondition
  /\ queue_mutex' = NoThread
  /\ pc' = [pc EXCEPT ![w] = "exited"]
  /\ UNCHANGED <<inputVars, threads, workers, tasks, stop, engineVars, workerVars,
                 historyVars, mainVars>>

WPopHoldsLock(w) ==
  /\ pc[w] = "locked"
  /\ WaitPredicate
  /\ ~ExitCondition
  /\ task' = [task EXCEPT ![w] = Head(tasks)]
  /\ runs' = [runs EXCEPT ![Head(tasks)] = @ + 1]
  /\ tasks' = Tail(tasks)
  /\ queue_mutex' = queue_mutex
  /\ pc' = [pc EXCEPT ![w] = "run"]
  /\ UNCHANGED <<inputVars, threads, workers, stop, engineVars, matchingLines,
                 historyVars, mainVars>>

WPopTakesBack(w) ==
  /\ pc[w] = "locked"
  /\ WaitPredicate
  /\ ~ExitCondition
  /\ task' = [task EXCEPT ![w] = tasks[Len(tasks)]]
  /\ runs' = [runs EXCEPT ![tasks[Len(tasks)]] = @ + 1]
  /\ tasks' = SubSeq(tasks, 1, Len(tasks) - 1)
  /\ queue_mutex' = NoThread
  /\ pc' = [pc EXCEPT ![w] = "run"]
  /\ UNCHANGED <<inputVars, threads, workers, stop, engineVars, matchingLines,
                 historyVars, mainVars>>

WPopKeepsFront(w) ==
  /\ pc[w] = "locked"
  /\ WaitPredicate
  /\ ~ExitCondition
  /\ task' = [task EXCEPT ![w] = Head(tasks)]
  /\ runs' = [runs EXCEPT ![Head(tasks)] = @ + 1]
  /\ tasks' = tasks
  /\ queue_mutex' = NoThread
  /\ pc' = [pc EXCEPT ![w] = "run"]
  /\ UNCHANGED <<inputVars, threads, workers, stop, engineVars, matchingLines,
                 historyVars, mainVars>>

\* lines 38-40: front, pop, unlock; task() is invoked next
WPop(w) ==
  /\ pc[w] = "locked"
  /\ WaitPredicate
  /\ ~ExitCondition
  /\ task' = [task EXCEPT ![w] = Head(tasks)]
  /\ runs' = [runs EXCEPT ![Head(tasks)] = @ + 1]
  /\ tasks' = Tail(tasks)
  /\ queue_mutex' = NoThread
  /\ pc' = [pc EXCEPT ![w] = "run"]
  /\ UNCHANGED <<inputVars, threads, workers, stop, engineVars, matchingLines,
                 historyVars, mainVars>>

WScanDiesOnOpenFailure(w) ==
  /\ pc[w] = "run"
  /\ LET found == ScanFile(tree2[task[w]], searchTerm)
     IN /\ matchingLines' = [matchingLines EXCEPT ![w] = found]
        /\ pc' = [pc EXCEPT ![w] = IF ~tree2[task[w]].openable THEN "exited"
                                   ELSE IF found # <<>> THEN "lockres" ELSE "inc"]
  /\ UNCHANGED <<inputVars, poolVars, engineVars, task, runs, historyVars, mainVars>>

WScanAlwaysAppends(w) ==
  /\ pc[w] = "run"
  /\ LET found == ScanFile(tree2[task[w]], searchTerm)
     IN /\ matchingLines' = [matchingLines EXCEPT ![w] = found]
        /\ pc' = [pc EXCEPT ![w] = "lockres"]
  /\ UNCHANGED <<inputVars, poolVars, engineVars, task, runs, historyVars, mainVars>>

\* searchInFile, lines 74-88: open, read and scan the file
WScan(w) ==
  /\ pc[w] = "run"
  /\ LET found == ScanFile(tree2[task[w]], searchTerm)
     IN /\ matchingLines' = [matchingLines EXCEPT ![w] = found]
        /\ pc' = [pc EXCEPT ![w] = IF found # <<>> THEN "lockres" ELSE "inc"]
  /\ UNCHANGED <<inputVars, poolVars, engineVars, task, runs, historyVars, mainVars>>

WLockResNoExclusion(w) ==
  /\ pc[w] = "lockres"
  /\ results_mutex' = w
  /\ pc' = [pc EXCEPT ![w] = "append"]
  /\ UNCHANGED <<inputVars, poolVars, results, files_processed, total_files, workerVars,
                 historyVars, mainVars>>

\* line 89
WLockRes(w) ==
  /\ pc[w] = "lockres"
  /\ results_mutex = NoThread
  /\ results_mutex' = w
  /\ pc' = [pc EXCEPT ![w] = "append"]
  /\ UNCHANGED <<inputVars, poolVars, results, files_processed, total_files, workerVars,
                 historyVars, mainVars>>

\* lines 90-91
WAppend(w) ==
  /\ pc[w] = "append"
  /\ results' = Append(results, <<task[w], matchingLines[w]>>)
  /\ results_mutex' = NoThread
  /\ pc' = [pc EXCEPT ![w] = "inc"]
  /\ UNCHANGED <<inputVars, poolVars, files_processed, total_files, workerVars,
                 historyVars, mainVars>>

WIncIfMatched(w) ==
  /\ pc[w] = "inc"
  /\ files_processed' = IF matchingLines[w] # <<>> THEN files_processed + 1
                        ELSE files_processed
  /\ pc' = [pc EXCEPT ![w] = "print"]
  /\ UNCHANGED <<inputVars, poolVars, results_mutex, results, total_files, workerVars,
                 historyVars, mainVars>>

\* files_processed++, line 115
WInc(w) ==
  /\ pc[w] = "inc"
  /\ files_processed' = files_processed + 1
  /\ pc' = [pc EXCEPT ![w] = "print"]
  /\ UNCHANGED <<inputVars, poolVars, results_mutex, results, total_files, workerVars,
                 historyVars, mainVars>>

\* lines 118-121: the progress line; the task returns to the worker loop
WPrint(w) ==
  /\ pc[w] = "print"
  /\ task' = [task EXCEPT ![w] = 0]
  /\ matchingLines' = [matchingLines EXCEPT ![w] = <<>>]
  /\ pc' = [pc EXCEPT ![w] = "loop"]
  /\ UNCHANGED <<inputVars, poolVars, engineVars, runs, historyVars, mainVars>>

\* ---------------------------------------------------------- specification
MainNext ==
  \/ MainStart
  \/ CountStep
  \/ CreatePool
  \/ CtorSpawn
  \/ DispatchStep
  \/ FsThrow
  \/ EnqLock(MainThread)
  \/ EnqEmplace(MainThread)
  \/ EnqNotify(MainThread)
  \/ DrainPoll
  \/ DrainSleep
  \/ Report
  \/ Display
  \/ DtorLock
  \/ DtorStop
  \/ DtorNotify
  \/ DtorJoin
  \/ MainCatch
  \/ MainReturn

\* a worker's steps other than spurious wakeups
WorkerStep(w) ==
  \/ WAcquire(w)
  \/ WWait(w)
  \/ WExit(w)
  \/ WPop(w)
  \/ WScan(w)
  \/ WLockRes(w)
  \/ WAppend(w)
  \/ WInc(w)
  \/ WPrint(w)

WorkerNext(w) == WorkerStep(w) \/ WSpurious(w)

Next == MainNext \/ \E w \in WorkerIds : WorkerNext(w)

Spec == Init /\ [][Next]_vars

\* scheduling: every thread keeps running, a blocked lock() returns once the
\* mutex is free often enough, and spurious wakeups are never owed
Fairness ==
  /\ WF_vars(MainNext)
  /\ SF_vars(EnqLock(MainThread))
  /\ SF_vars(DtorLock)
  /\ \A w \in WorkerIds : WF_vars(WorkerStep(w)) /\ SF_vars(WAcquire(w))

FairSpec == Spec /\ Fairness

\* ------------------------------------------------- the program invoked twice
\* a second invocation on the same tree with the same term, after a first one
\* that returned 0; every object of the first process is gone
Rerun ==
  /\ pc[MainThread] = "exit"
  /\ exitCode = 0
  /\ runNo = 1
  /\ runNo' = runNo + 1
  /\ firstPairs' = {results[i] : i \in 1..Len(results)}
  /\ pc' = [t \in Threads |-> IF t = MainThread THEN "main" ELSE "unborn"]
  /\ threads' = 0
  /\ workers' = 0
  /\ tasks' = <<>>
  /\ queue_mutex' = NoThread
  /\ stop' = FALSE
  /\ results_mutex' = NoThread
  /\ results' = <<>>
  /\ files_processed' = 0
  /\ total_files' = 0
  /\ it' = [t \in Callers |-> 0]
  /\ joined' = 0
  /\ task' = [w \in WorkerIds |-> 0]
  /\ matchingLines' = [w \in WorkerIds |-> <<>>]
  /\ unwinding' = FALSE
  /\ exitCode' = -1
  /\ output' = <<>>
  /\ runs' = [p \in 1..MaxEntries |-> 0]
  /\ submitted' = <<>>
  /\ UNCHANGED inputVars

NextTwice == Next \/ Rerun

SpecTwice == Init /\ [][NextTwice]_vars

\* ------------------------------- the tree modified between the two passes
\* entries with the i-th one removed
Without(entries, i) == SubSeq(entries, 1, i - 1) \o SubSeq(entries, i + 1, Len(entries))

\* what the dispatching pass may find after the counting pass saw entries:
\* the same tree, one entry deleted, or one entry created
TreesAfter(entries) ==
  {entries}
    \cup {Without(entries, i) : i \in 1..Len(entries)}
    \cup {Append(entries, e) : e \in (IF Len(entries) < MaxEntries THEN EntryKinds ELSE {})}

InitRace ==
  /\ argc = MinArgc
  /\ rootExists = TRUE
  /\ tree \in Trees
  /\ tree2 \in TreesAfter(tree)
  /\ searchTerm \in ArgTerms
  /\ runNo = 1
  /\ firstPairs = {}
  /\ InitRun

SpecRace == InitRace /\ [][Next]_vars /\ Fairness

\* ------------------------------------------------ searchInFile on any file
AllContents == SeqsUpTo(Chars \cup {NL}, MaxFileLen)
AllTerms == SeqsUpTo(Chars \cup {NL}, MaxTermLen)

\* worker 1 has popped the task of the only file of the tree and invokes it
InitScan ==
  /\ argc = MinArgc
  /\ rootExists = TRUE
  /\ \E o \in BOOLEAN, c \in AllContents :
       tree = <<[regular |-> TRUE, openable |-> o, content |-> c]>>
  /\ tree2 = tree
  /\ searchTerm \in AllTerms
  /\ runNo = 1
  /\ firstPairs = {}
  /\ pc = [t \in Threads |-> IF t = MainThread THEN "Draining"
                             ELSE IF t = 1 THEN "run" ELSE "unborn"]
  /\ threads = 1
  /\ workers = 1
  /\ tasks = <<>>
  /\ queue_mutex = NoThread
  /\ stop = FALSE
  /\ results_mutex = NoThread
  /\ results = <<>>
  /\ files_processed = 0
  /\ total_files = 1
  /\ it = [t \in Callers |-> IF t = MainThread THEN 2 ELSE 0]
  /\ joined = 0
  /\ task = [w \in WorkerIds |-> IF w = 1 THEN 1 ELSE 0]
  /\ matchingLines = [w \in WorkerIds |-> <<>>]
  /\ unwinding = FALSE
  /\ exitCode = -1
  /\ output = << <<"searching">> >>
  /\ runs = [p \in 1..MaxEntries |-> IF p = 1 THEN 1 ELSE 0]
  /\ submitted = <<1>>

NextScan ==
  \/ WScan(1)
  \/ WLockRes(1)
  \/ WAppend(1)
  \/ WInc(1)
  \/ WPrint(1)

SpecScan == InitScan /\ [][NextScan]_vars

\* ------------------------------------- enqueue called from several threads
\* ThreadPool used as search uses it, with the submissions of the dispatching
\* pass spread over the threads of ProducerIds: producer k submits entries
\* k, k + MaxProducers, ...; main joins the producers and destroys the pool

RECURSIVE RegularCount(_, _)
\* the value the counting pass leaves in total_files
RegularCount(entries, n) ==
  IF n = 0 THEN 0
  ELSE RegularCount(entries, n - 1) + (IF IsRegularFile(entries[n]) THEN 1 ELSE 0)

\* the counting pass is over and the pool is about to be constructed
InitPool ==
  /\ argc = MinArgc
  /\ rootExists = TRUE
  /\ tree \in Trees
  /\ tree2 = tree
  /\ searchTerm \in ArgTerms
  /\ runNo = 1
  /\ firstPairs = {}
  /\ pc = [t \in Threads |-> IF t = MainThread THEN "CreatePool" ELSE "unborn"]
  /\ threads = 0
  /\ workers = 0
  /\ tasks = <<>>
  /\ queue_mutex = NoThread
  /\ stop = FALSE
  /\ results_mutex = NoThread
  /\ results = <<>>
  /\ files_processed = 0
  /\ total_files = RegularCount(tree, Len(tree))
  /\ it = [t \in Callers |-> IF t = MainThread THEN Len(tree) + 1 ELSE 0]
  /\ joined = 0
  /\ task = [w \in WorkerIds |-> 0]
  /\ matchingLines = [w \in WorkerIds |-> <<>>]
  /\ unwinding = FALSE
  /\ exitCode = -1
  /\ output = << <<"searching">> >>
  /\ runs = [p \in 1..MaxEntries |-> 0]
  /\ submitted = <<>>

\* main starts the producers instead of iterating itself
SubmitStart ==
  /\ pc[MainThread] = "Dispatching"
  /\ pc' = [t \in Threads |-> IF t = MainThread THEN "JoinProducers"
                              ELSE IF t \in ProducerIds THEN "produce" ELSE pc[t]]
  /\ it' = [t \in Callers |-> IF t = MainThread THEN it[t] ELSE t - MaxWorkers]
  /\ UNCHANGED <<inputVars, poolVars, engineVars, workerVars, historyVars, joined,
                 unwinding, exitCode, output>>

\* a producer's share of lines 111-113
ProducerStep(t) ==
  /\ pc[t] = "produce"
  /\ IF it[t] <= Len(tree2)
       THEN IF IsRegularFile(tree2[it[t]])
              THEN /\ pc' = [pc EXCEPT ![t] = "EnqLock"]
                   /\ it' = it
              ELSE /\ pc' = pc
                   /\ it' = [it EXCEPT ![t] = @ + Stride(t)]
       ELSE /\ pc' = [pc EXCEPT ![t] = "finished"]
            /\ it' = it
  /\ UNCHANGED <<inputVars, poolVars, engineVars, workerVars, historyVars, joined,
                 unwinding, exitCode, output>>

\* main waits for the producers, then leaves the pool's scope
JoinProducers ==
  /\ pc[MainThread] = "JoinProducers"
  /\ \A t \in ProducerIds : pc[t] = "finished"
  /\ pc' = [pc EXCEPT ![MainThread] = "DtorLock"]
  /\ UNCHANGED <<inputVars, poolVars, engineVars, workerVars, historyVars, mainVars>>

ProducerNext(t) ==
  \/ ProducerStep(t)
  \/ EnqLock(t)
  \/ EnqEmplace(t)
  \/ EnqNotify(t)

PoolMainNext ==
  \/ CreatePool
  \/ CtorSpawn
  \/ SubmitStart
  \/ JoinProducers
  \/ DtorLock
  \/ DtorStop
  \/ DtorNotify
  \/ DtorJoin
  \/ MainReturn

NextPool ==
  \/ PoolMainNext
  \/ \E t \in ProducerIds : ProducerNext(t)
  \/ \E w \in WorkerIds : WorkerNext(w)

FairnessPool ==
  /\ WF_vars(PoolMainNext)
  /\ SF_vars(DtorLock)
  /\ \A t \in ProducerIds : WF_vars(ProducerNext(t)) /\ SF_vars(EnqLock(t))
  /\ \A w \in WorkerIds : WF_vars(WorkerStep(w)) /\ SF_vars(WAcquire(w))

SpecPool == InitPool /\ [][NextPool]_vars /\ FairnessPool

\* ================================================================== claims
\* vocabulary of the properties below

Paths == 1..MaxEntries

\* how many tasks for path p are in a sequence of paths
CountIn(q, p) == Cardinality({i \in 1..Len(q) : q[i] = p})

\* executions of p's task that have returned
Returned(p) == runs[p] - Cardinality({w \in WorkerIds : task[w] = p})

\* ~ThreadPool has returned
PoolDestroyed == stop /\ pc[MainThread] \in {"catch", "return", "exit"}

RECURSIVE SumRuns(_)
SumRuns(n) == IF n = 0 THEN 0 ELSE SumRuns(n - 1) + runs[n]

\* workers that have popped a task and not yet executed its files_processed++
BeforeIncrement == {w \in WorkerIds : pc[w] \in {"run", "lockres", "append", "inc"}}

AtReporting == pc[MainThread] \in {"Reporting", "Display"}

\* ---- C1
\* where every submitted task is, and where it is once the pool is gone
C1_Accounting ==
  /\ \A p \in Paths :
       /\ runs[p] <= 1
       /\ CountIn(submitted, p) <= 1
       /\ CountIn(tasks, p) + runs[p] = CountIn(submitted, p)
  /\ (PoolDestroyed /\ workers >= 1) =>
       \A p \in Paths : CountIn(submitted, p) = 1 => Returned(p) = 1

NoneOutstanding == \A p \in Paths : Returned(p) = CountIn(submitted, p)

\* C1: with at least one worker, every task passed to enqueue, by one thread
\* or by several at once, is popped and run exactly once: at every moment each
\* submitted task is either still queued or has been popped once, nothing
\* else is ever queued or popped, all submitted tasks have returned when the
\* destructor has returned, and again and again no submitted task is
\* outstanding (so each one is eventually executed).
C1_ExactlyOnce ==
  /\ []C1_Accounting
  /\ []<>(workers >= 1 => NoneOutstanding)

\* two producers have submitted, the second before the first, and two workers
\* have run the tasks
C1_Witness ==
  /\ PoolDestroyed
  /\ workers >= 2
  /\ Len(submitted) >= 2
  /\ submitted[1] > submitted[2]
  /\ \A i \in 1..Len(submitted) : Returned(submitted[i]) = 1

\* ---- C2
\* C2: a worker has left its loop only if stop is set and the queue is empty,
\* and once the destructor has returned every submitted task has been executed.
C2_DrainedAtShutdown ==
  /\ \A w \in WorkerIds : pc[w] = "exited" => (stop /\ tasks = <<>>)
  /\ PoolDestroyed => \A i \in 1..Len(submitted) : Returned(submitted[i]) = 1

\* ---- C3
\* C3: files_processed is the number of task executions that have passed
\* their increment, whatever the outcome of the scan, and equals total_files
\* when the main thread is reporting.
C3_ProcessedCount ==
  /\ files_processed = SumRuns(MaxEntries) - Cardinality(BeforeIncrement)
  /\ AtReporting => files_processed = total_files

\* a run with a matching file and a file that cannot be opened is reporting
C3_Witness ==
  /\ AtReporting
  /\ files_processed = 2
  /\ Len(results) = 1
  /\ \E p \in 1..Len(tree2) : tree2[p] = LockedFile

\* ---- C4
\* the two bounds, and one evaluation of the wait loop's condition
C4_Bounded ==
  tree2 = tree => (files_processed <= total_files /\ Len(results) <= total_files)

C4_LeavesLoop ==
  (tree2 = tree /\ pc[MainThread] = "Draining" /\ pc'[MainThread] # "Draining")
    => (pc'[MainThread] = "Reporting" <=> files_processed = total_files)

\* C4: on a tree that is the same in both passes files_processed and the size
\* of results never exceed total_files, and an evaluation of the wait loop's
\* condition leaves the loop exactly when files_processed = total_files.
C4_ProcessedWithinTotal == []C4_Bounded /\ [][C4_LeavesLoop]_vars

\* the loop has been left with as many results as files
C4_Witness ==
  /\ pc[MainThread] = "Reporting"
  /\ total_files = 2
  /\ files_processed = total_files
  /\ Len(results) = total_files

\* ---- C5
\* C5: on a tree that is the same in both passes, once the main thread is in
\* the wait loop it eventually leaves it, reports, and search returns with
\* every worker joined.
C5_RunTerminates ==
  (tree2 = tree /\ pc[MainThread] = "Draining")
    ~> (pc[MainThread] = "return" /\ \A w \in 1..workers : pc[w] = "exited")

\* ---- text of a file, stated without reference to the scanning loop
\* positions (0-based) at which term occurs in line
Occurrences(line, term) ==
  {i \in 0..(Len(line) - Len(term)) : SubSeq(line, i + 1, i + Len(term)) = term}

Contains(line, term) == Occurrences(line, term) # {}

Delims(content) == {i \in 1..Len(content) : content[i] = NL}

\* a last line need not end with a delimiter
NumLines(content) ==
  Cardinality(Delims(content))
    + (IF content # <<>> /\ content[Len(content)] # NL THEN 1 ELSE 0)

\* position of the k-th delimiter (0 for k = 0, past the end if there is none)
DelimAt(content, k) ==
  IF k = 0 THEN 0
  ELSE IF k > Cardinality(Delims(content)) THEN Len(content) + 1
  ELSE CHOOSE i \in Delims(content) :
         Cardinality({j \in Delims(content) : j <= i}) = k

\* the k-th line (1-indexed): the text between delimiters k-1 and k
TextLine(content, k) ==
  SubSeq(content, DelimAt(content, k - 1) + 1, DelimAt(content, k) - 1)

MatchingLineNumbers(content, term) ==
  {k \in 1..NumLines(content) : Contains(TextLine(content, k), term)}

\* the regular files that can be opened and hold the term on some line
ExpectedFiles ==
  {p \in 1..Len(tree2) :
     /\ tree2[p].regular
     /\ tree2[p].openable
     /\ MatchingLineNumbers(tree2[p].content, searchTerm) # {}}

ResultPaths == {results[i][1] : i \in 1..Len(results)}
ResultPairs == {results[i] : i \in 1..Len(results)}

\* ---- C6
\* C6: while the main thread reports, the paths in results are exactly the
\* regular, openable files with a line containing the term, each once.
C6_ReportedFiles ==
  AtReporting =>
    (ResultPaths = ExpectedFiles /\ Len(results) = Cardinality(ExpectedFiles))

\* two matching files, reported in the reverse of the submission order
C6_Witness ==
  /\ AtReporting
  /\ Len(results) = 2
  /\ results[1][1] = 2
  /\ results[2][1] = 1

\* ---- C7
\* C7: the line-number list of every entry of results is non-empty,
\* 1-indexed, strictly increasing and holds exactly the numbers of the lines
\* of the file that contain the term.
C7_LineNumbers ==
  \A i \in 1..Len(results) :
    LET ls == results[i][2]
        content == tree2[results[i][1]].content
    IN /\ ls # <<>>
       /\ \A j \in 1..Len(ls) : ls[j] >= 1
       /\ \A j, k \in 1..Len(ls) : j < k => ls[j] < ls[k]
       /\ {ls[j] : j \in 1..Len(ls)} = MatchingLineNumbers(content, searchTerm)

\* an entry for a file whose first line holds the term twice and whose
\* third line holds it again, the second line not
C7_Witness ==
  /\ Len(results) = 1
  /\ results[1][2] = <<1, 3>>
  /\ Cardinality(Occurrences(TextLine(tree2[1].content, 1), searchTerm)) = 2

\* ---- C8
\* C8: a second run on the same tree with the same term reports the same set
\* of (path, line-numbers) pairs as the first.
C8_SameResults ==
  (runNo = 2 /\ AtReporting) => ResultPairs = firstPairs

\* the second run reports two pairs, appended in reverse path order
C8_Witness ==
  /\ runNo = 2
  /\ AtReporting
  /\ Cardinality(firstPairs) = 2
  /\ results[1][1] = 2

\* ---- C9
\* worker w runs the task of a file that cannot be opened
OpenFails(w) == task[w] # 0 /\ ~tree2[task[w]].openable

C9_Absorbed ==
  /\ \A i \in 1..Len(results) : tree2[results[i][1]].openable
  /\ \A w \in WorkerIds : OpenFails(w) => pc[w] \in {"run", "inc", "print"}
  /\ \A w \in WorkerIds : pc[w] = "exited" => (task[w] = 0 /\ stop)

\* C9: a task whose file cannot be opened adds nothing to results and does
\* not end its worker, which leaves its loop only through the stop check;
\* and unless a traversal error aborts the run, the main thread then still
\* reaches Reporting with files_processed = total_files.
C9_OpenFailureAbsorbed ==
  /\ []C9_Absorbed
  /\ (\E w \in WorkerIds : pc[w] = "run" /\ OpenFails(w))
       ~> (unwinding \/ (pc[MainThread] = "Reporting" /\ files_processed = total_files))

\* the only worker has run the task of a file that cannot be opened and
\* now runs the next task
C9_Witness ==
  /\ workers = 1
  /\ Len(tree2) = 2
  /\ tree2[1] = LockedFile
  /\ task[1] = 2
  /\ files_processed = 1
  /\ results = <<>>

\* ---- C10
\* what main writes when it reports
ReportLines == {"completed", "found", "results", "file"}

C10_NoReport ==
  unwinding =>
    /\ ~AtReporting
    /\ \A i \in 1..Len(output) : output[i][1] \notin ReportLines
    /\ exitCode # 0
    /\ (pc[MainThread] = "exit" => exitCode = 1)

\* C10: once a traversal error has been thrown the main thread never reports:
\* no completion line, count line or Results block is written, and main
\* returns 1.
C10_TraversalErrorFatal ==
  /\ []C10_NoReport
  /\ unwinding ~> (pc[MainThread] = "exit" /\ exitCode = 1)

\* the error came in the dispatching pass after a task had appended a result
C10_Witness ==
  /\ unwinding
  /\ pc[MainThread] = "exit"
  /\ exitCode = 1
  /\ results # <<>>

\* ---- C11
\* main was given an existing directory that has no entry
EmptyDirectory == argc >= MinArgc /\ rootExists /\ tree = <<>> /\ tree2 = <<>>

\* the lines main has written whose tag is in tags
Written(tags) == {i \in 1..Len(output) : output[i][1] \in tags}

C11_Idle ==
  EmptyDirectory =>
    /\ total_files = 0
    /\ submitted = <<>> /\ tasks = <<>>
    /\ SumRuns(MaxEntries) = 0
    /\ \A w \in WorkerIds : pc[w] \in {"unborn", "loop", "locked", "waiting", "exited"}
    /\ pc[MainThread] # "Sleeping"
    /\ \A i \in Written({"found"}) : output[i][2] = 0
    /\ Written({"results", "file"}) = {}
    /\ (~unwinding => exitCode \in {-1, 0})

\* C11: for an empty directory total_files stays 0, no task is enqueued or
\* executed, the main thread never sleeps in the wait loop, the count line
\* says 0 and no Results block is written; and unless the traversal itself
\* fails, main ends with exit code 0 after every worker has left its loop.
C11_EmptyDirectory ==
  /\ []C11_Idle
  /\ (EmptyDirectory /\ pc[MainThread] = "main")
       ~> (unwinding \/ (/\ pc[MainThread] = "exit"
                         /\ exitCode = 0
                         /\ Written({"completed"}) # {}
                         /\ \A w \in 1..workers : pc[w] = "exited"))

\* the run on an empty directory has ended with two workers, one of them
\* never having blocked on the condition variable before stop was set
C11_Witness ==
  /\ EmptyDirectory
  /\ pc[MainThread] = "exit"
  /\ exitCode = 0
  /\ workers = 2
  /\ \A w \in 1..workers : pc[w] = "exited"
  /\ output[Len(output)] = <<"found", 0>>

\* ---- C12
\* argv[1] names no existing path
MissingDirectory == argc >= MinArgc /\ ~rootExists

C12_NoSearch ==
  MissingDirectory =>
    /\ pc[MainThread] \in {"main", "exit"}
    /\ \A w \in WorkerIds : pc[w] = "unborn"
    /\ threads = 0 /\ workers = 0 /\ ~stop
    /\ total_files = 0 /\ files_processed = 0 /\ results = <<>>
    /\ tasks = <<>> /\ submitted = <<>>
    /\ (pc[MainThread] = "exit" => (exitCode = 1 /\ output = << <<"nodir">> >>))

\* C12: when the directory argument names no existing path, main writes the
\* "does not exist" line and exits with code 1, and nothing of a search ever
\* happens: no counting step, no pool, no worker, no task.
C12_MissingDirectory ==
  /\ []C12_NoSearch
  /\ (MissingDirectory /\ pc[MainThread] = "main")
       ~> (pc[MainThread] = "exit" /\ exitCode = 1)

\* main has returned 1 for a missing directory
C12_Witness ==
  /\ MissingDirectory
  /\ pc[MainThread] = "exit"
  /\ exitCode = 1
  /\ output = << <<"nodir">> >>

\* ---- C13
\* how many tasks have been popped so far
Popped == SumRuns(MaxEntries)

\* the queue holds the tasks submitted after the popped ones, in submission
\* order, and the popped ones are those submitted first
C13_QueueIsSuffix ==
  /\ Popped + Len(tasks) = Len(submitted)
  /\ tasks = SubSeq(submitted, Popped + 1, Len(submitted))
  /\ \A i \in 1..Len(submitted) : runs[submitted[i]] = (IF i <= Popped THEN 1 ELSE 0)

\* a pop by worker w
Pops(w) == pc[w] = "locked" /\ pc'[w] = "run"

C13_PopsNextSubmitted ==
  \A w \in WorkerIds :
    Pops(w) => (Popped < Len(submitted) /\ task'[w] = submitted[Popped + 1])

\* C13: tasks are popped in the order in which enqueue emplaced them, with
\* any number of workers and of submitting threads: the k-th pop takes the
\* k-th submitted task, so a task submitted before another is popped before it.
C13_FifoDequeue == []C13_QueueIsSuffix /\ [][C13_PopsNextSubmitted]_vars

\* path 2 was submitted before path 1 and popped first by one worker; the
\* other worker popped path 1 afterwards and has finished it while path 2's
\* task is still running
C13_Witness ==
  /\ submitted = <<2, 1>>
  /\ tasks = <<>>
  /\ Returned(1) = 1
  /\ \E w \in WorkerIds : task[w] = 2 /\ pc[w] = "run"

\* ---- C14
\* worker w blocks on the condition variable
Blocks(w) == pc[w] = "locked" /\ pc'[w] = "waiting"

C14_BlocksOnlyWhenIdle ==
  \A w \in WorkerIds : Blocks(w) => (tasks = <<>> /\ ~stop)

\* a notify_one or the notify_all is about to be issued
NotifyPending ==
  \/ \E t \in Callers : pc[t] = "EnqNotify"
  \/ pc[MainThread] = "DtorNotify"

\* when every worker is blocked and no notification is on its way, there is
\* nothing to wake up for
C14_NoneAsleepOnWork ==
  (workers >= 1 /\ (\A w \in 1..workers : pc[w] = "waiting") /\ ~NotifyPending)
    => (tasks = <<>> /\ ~stop)

\* C14: a worker blocks on the condition variable only when the queue is
\* empty and stop is false; the workers are never all blocked over a
\* non-empty queue without a notification pending; and with at least one
\* worker, under fair scheduling and without help from spurious wakeups, a
\* non-empty queue is always emptied again, so a queued task is eventually
\* popped.
C14_NoLostWakeup ==
  /\ [][C14_BlocksOnlyWhenIdle]_vars
  /\ []C14_NoneAsleepOnWork
  /\ []<>(workers >= 1 => tasks = <<>>)

\* enqueue is about to call notify_one for a queued task while no worker is
\* waiting: the only worker is busy with an earlier task
C14_Witness ==
  /\ pc[MainThread] = "EnqNotify"
  /\ workers = 1
  /\ tasks = <<2>>
  /\ Waiters = {}
  /\ pc[1] = "run"

\* ---- C15
\* workers between the lock_guard's construction and its destruction
InAppendSection == {w \in WorkerIds : pc[w] = "append"}

\* tasks that have pushed their entry: popped, with a matching line, and
\* past the critical section
CompletedAppends ==
  {p \in 1..Len(tree2) :
     /\ runs[p] >= 1
     /\ ScanFile(tree2[p], searchTerm) # <<>>
     /\ \A w \in WorkerIds : task[w] = p => pc[w] \in {"inc", "print"}}

C15_Exclusive ==
  /\ Cardinality(InAppendSection) <= 1
  /\ \A w \in WorkerIds : (results_mutex = w) <=> (w \in InAppendSection)
  /\ results_mutex \in WorkerIds \cup {NoThread}
  /\ Len(results) = Cardinality(CompletedAppends)
  /\ ResultPaths = CompletedAppends

C15_AppendsAtTail ==
  results' # results =>
    \E w \in WorkerIds :
      /\ results_mutex = w
      /\ pc[w] = "append" /\ pc'[w] = "inc"
      /\ results' = Append(results, <<task[w], matchingLines[w]>>)
      /\ results_mutex' = NoThread

\* C15: at most one worker is between the lock and the unlock of
\* results_mutex, and it is the holder of the mutex; results changes only by
\* that worker appending its one entry at the tail, all earlier entries
\* staying as they are; and the size of results is the number of appends
\* completed, none lost.
C15_ResultsMutex == []C15_Exclusive /\ [][C15_AppendsAtTail]_vars

\* one worker is in the critical section while the other has a match to
\* append and waits for the mutex
C15_Witness ==
  /\ \E w \in WorkerIds : pc[w] = "append"
  /\ \E w \in WorkerIds : pc[w] = "lockres"

\* ---- C16
\* the counting pass is over, the tree is the one it counted, and as many
\* tasks have incremented files_processed as it counted files
AllProcessed ==
  /\ tree2 = tree
  /\ pc[MainThread] \notin {"main", "Counting"}
  /\ files_processed = total_files

C16_Quiet ==
  /\ AllProcessed =>
       /\ tasks = <<>>
       /\ results_mutex = NoThread
       /\ \A w \in WorkerIds : pc[w] \notin {"run", "lockres", "append", "inc"}
  /\ (tree2 = tree /\ AtReporting) => AllProcessed

C16_Frozen == AllProcessed => (AllProcessed' /\ results' = results)

\* C16: on a tree identical in both passes, once files_processed has reached
\* the total_files of the finished counting pass, no task is queued, no worker
\* is in or on its way to the results append section, and this stays so;
\* the main thread reports only in such states, so results is never modified
\* from the moment it leaves the wait loop.
C16_ReadOnlyAfterDrain == []C16_Quiet /\ [][C16_Frozen]_vars

\* main prints the Results block of two entries while the task that
\* appended the second one has not yet returned
C16_Witness ==
  /\ pc[MainThread] = "Display"
  /\ Len(results) = 2
  /\ \E w \in WorkerIds : pc[w] = "print" /\ task[w] = results[2][1]

\* ---- C17
\* regular files seen by the counting pass and by the dispatching pass
Counted == RegularCount(tree, Len(tree))
Dispatched == RegularCount(tree2, Len(tree2))

InWaitLoop == pc[MainThread] \in {"Draining", "Sleeping"}

\* where the main thread is once it has left the wait loop normally
PastWaitLoop ==
  \/ AtReporting
  \/ pc[MainThread] = "return"
  \/ (~unwinding /\ pc[MainThread] \in {"DtorLock", "DtorStop", "DtorNotify", "DtorJoin",
                                          "exit", "aborted"})

C17_Mismatch ==
  /\ Len(submitted) <= Dispatched
  /\ (pc[MainThread] = "CreatePool" \/ workers > 0 \/ InWaitLoop) => total_files = Counted
  /\ (Dispatched < Counted) => (files_processed < Counted /\ ~PastWaitLoop)
  /\ (Dispatched > Counted /\ AtReporting) => files_processed >= total_files

C17_LeavesOnCount ==
  (pc[MainThread] = "Draining" /\ pc'[MainThread] # "Draining")
    => (pc'[MainThread] = "Reporting" <=> files_processed >= total_files)

\* C17: when the dispatching pass finds fewer regular files than the
\* counting pass counted, files_processed stays below total_files, the main
\* thread never gets past the wait loop and, unless the traversal fails, ends
\* up in it for ever; when it finds more, the wait loop is left as soon as
\* files_processed has reached total_files, whatever is still queued or running.
C17_TreeChangedBetweenPasses ==
  /\ []C17_Mismatch
  /\ [][C17_LeavesOnCount]_vars
  /\ <>[]((Dispatched < Counted) => (unwinding \/ InWaitLoop))

\* a file created after the counting pass: the main thread prints the
\* Results block while a worker is inside push_back and a task is still queued
C17_Witness ==
  /\ Dispatched > Counted
  /\ pc[MainThread] = "Display"
  /\ Racing

\* ---- C18
\* the counting pass has not finished
BeforePool == pc[MainThread] \in {"main", "Counting"}

C18_NothingBeforeCount ==
  BeforePool =>
    /\ submitted = <<>> /\ tasks = <<>>
    /\ Popped = 0 /\ files_processed = 0
    /\ workers = 0
    /\ \A w \in WorkerIds : pc[w] = "unborn"

C18_WrittenInCounting ==
  /\ total_files' # total_files =>
       (pc[MainThread] = "Counting" /\ pc'[MainThread] = "Counting"
          /\ total_files' = total_files + 1)
  /\ ~BeforePool => total_files' = total_files

\* C18: total_files changes only by a step of the counting pass; while that
\* pass has not finished there is no pool, no worker, and no task enqueued or
\* executed; and from pool creation onward no step of the main thread or of
\* a worker changes total_files.
C18_TotalFixedBeforeTasks == []C18_NothingBeforeCount /\ [][C18_WrittenInCounting]_vars

\* both files counted, and a worker executes the second task after the
\* first has been processed
C18_Witness ==
  /\ total_files = 2
  /\ files_processed = 1
  /\ \E w \in WorkerIds : pc[w] = "run" /\ task[w] = 2

\* ---- C19
\* threads that execute a task: from the call of task() to its return
InTask == {w \in WorkerIds : pc[w] \in {"run", "lockres", "append", "inc", "print"}}

C19_LockDiscipline ==
  /\ \A w \in InTask : queue_mutex # w
  /\ \A w \in WorkerIds : queue_mutex = w <=> pc[w] = "locked"
  /\ \A t \in Callers :
       queue_mutex = t <=> (pc[t] = "EnqEmplace" \/ (t = MainThread /\ pc[t] = "DtorStop"))
  /\ \A t \in Threads : ~(queue_mutex = t /\ results_mutex = t)
  /\ \A t \in Callers : results_mutex # t

\* C19: a worker holds queue_mutex only between its lock and the pop, exit or
\* wait that follows, never while it executes a task; no thread holds
\* queue_mutex and results_mutex together; and under fair scheduling each
\* mutex is free again and again and a call of enqueue that waits for
\* queue_mutex gets it, so the locks cannot deadlock.
C19_NoNestedLocks ==
  /\ []C19_LockDiscipline
  /\ []<>(queue_mutex = NoThread)
  /\ []<>(results_mutex = NoThread)
  /\ []<>(pc[MainThread] # "EnqLock")

\* the main thread is inside enqueue with queue_mutex while a worker,
\* executing a task, is inside the results critical section
C19_Witness ==
  /\ queue_mutex = MainThread
  /\ pc[MainThread] = "EnqEmplace"
  /\ \E w \in WorkerIds : results_mutex = w /\ pc[w] = "append"

\* ---- C20
\* the pool's constructor has returned (stop is set only by its destructor)
PoolConstructed ==
  \/ pc[MainThread] \in {"Dispatching", "EnqLock", "EnqEmplace", "EnqNotify", "Draining",
                         "Sleeping", "Reporting", "Display", "DtorLock", "DtorStop",
                         "DtorNotify", "DtorJoin", "return"}
  \/ stop

\* hardware_concurrency() returned 0 and the pool has been constructed, for
\* a tree with a regular file that is the same in both passes
ZeroWorkerRun ==
  /\ threads = 0
  /\ PoolConstructed
  /\ tree2 = tree
  /\ Counted >= 1

InDestructor == pc[MainThread] \in {"DtorLock", "DtorStop", "DtorNotify", "DtorJoin"}

C20_NothingRuns ==
  ZeroWorkerRun =>
    /\ workers = 0
    /\ Popped = 0 /\ tasks = submitted
    /\ files_processed = 0 /\ results = <<>>
    /\ files_processed < total_files
    /\ ~AtReporting /\ pc[MainThread] # "return"
    /\ (InDestructor \/ stop) => unwinding
    /\ InWaitLoop => Len(tasks) = Counted

C20_StaysInLoop == (ZeroWorkerRun /\ InWaitLoop) => InWaitLoop'

\* C20: with a pool of zero workers and at least one regular file, no
\* enqueued task is ever popped, files_processed stays 0 and results empty,
\* the main thread never reports or returns from search, and once in the
\* wait loop it stays there for ever, every task still queued; it ends up
\* there unless the dispatching pass itself fails, the only way in which the
\* destructor is reached.
C20_ZeroWorkersHang ==
  /\ []C20_NothingRuns
  /\ [][C20_StaysInLoop]_vars
  /\ <>[](ZeroWorkerRun => (unwinding \/ InWaitLoop))

\* the main thread sleeps in the wait loop with both tasks queued and no worker
C20_Witness ==
  /\ ZeroWorkerRun
  /\ pc[MainThread] = "Sleeping"
  /\ Len(tasks) = 2
  /\ files_processed = 0
====
